---- MODULE Spec2Model ----
(***************************************************************************)
(* The access/refresh-token session lifecycle of the video-sharing         *)
(* backend: the VerifyJWT gate, loginUser, logOutUser, refreshAccessToken   *)
(* and getCurrentUser, over the user collection and a clock.               *)
(***************************************************************************)
EXTENDS Integers, Sequences, FiniteSets, TLC

(* ----------------------------- bounds --------------------------------- *)
\* The clock runs over 0..MaxTime (one tick = one second of jwt's iat/exp).
MaxTime == 3
\* Lifetimes of the two credentials, in ticks (ACCESS_TOKEN_EXPIRY,
\* REFRESH_TOKEN_EXPIRY of the environment, scaled down).
AccessTTL == 2
RefreshTTL == 3
\* Distinct credential pairs signed in one run.
MaxPairs == 2
\* Requests in flight at once, where the handlers interleave.
MaxInFlight == 2

Ids == {1, 2}
NoId == 0

(* ------------------------- configuration ------------------------------ *)
ACCESS_TOKEN_SECRET == "access-secret"
REFRESH_TOKEN_SECRET == "refresh-secret"
ATTACKER_SECRET == "attacker-secret"

(* ------------------------------ values -------------------------------- *)
\* Every value that can stand where a token string stands: a signed token,
\* a string that is no JWT, the empty string, and undefined.
JWT(key, id, exp) == [kind |-> "jwt", key |-> key, _id |-> id, exp |-> exp]
Garbage == [kind |-> "garbage", key |-> "", _id |-> NoId, exp |-> 0]
Empty == [kind |-> "empty", key |-> "", _id |-> NoId, exp |-> 0]
Undefined == [kind |-> "undefined", key |-> "", _id |-> NoId, exp |-> 0]
\* A well-formed token signed by somebody who does not hold the server's keys.
Forged == JWT(ATTACKER_SECRET, 1, MaxTime + RefreshTTL + 1)

\* JavaScript truthiness of a string-or-undefined value.
Truthy(v) == v.kind \notin {"empty", "undefined"}
\* a || b
Or(a, b) == IF Truthy(a) THEN a ELSE b

NoString == ""
Usernames == {"alice", "bob"}
Emails == {"alice@x", "bob@x"}
Passwords == {"pw1", "pw2"}

UsernameOf(i) == IF i = 1 THEN "alice" ELSE "bob"
EmailOf(i) == IF i = 1 THEN "alice@x" ELSE "bob@x"
PasswordOf(i) == IF i = 1 THEN "pw1" ELSE "pw2"

VARIABLES
    users,      \* the user collection: _id -> document
    now,        \* the clock
    issued,     \* every token the server has signed so far (what clients can hold)
    last,       \* the last request's outcome, as the client and the request saw it
    consumed,   \* history: refresh tokens a successful refresh has consumed
    loggedOut,  \* history: principals whose last session event is a logout
    lastLogin,  \* history: the refresh token each principal's last login returned
    pending     \* requests in flight, when handlers interleave at their awaits

vars == <<users, now, issued, last, consumed, loggedOut, lastLogin, pending>>

(* --------------------------- user model ------------------------------- *)
\* bcrypt hash of a plaintext (user.model.js pre-save hook).
Hash(plaintext) == <<"bcrypt", plaintext>>

\* user.isPasswordCorrect(password)
isPasswordCorrect(user, password) == user.password = Hash(password)

\* user.generateAccessToken(): claims the principal id, expires AccessTTL from now.
generateAccessToken(user, t) == JWT(ACCESS_TOKEN_SECRET, user._id, t + AccessTTL)

\* user.generateRefreshToken(): claims the principal id, expires RefreshTTL from now.
generateRefreshToken(user, t) == JWT(REFRESH_TOKEN_SECRET, user._id, t + RefreshTTL)

Null == [_id |-> NoId, state |-> "null", username |-> NoString, email |-> NoString,
         password |-> Hash(NoString), refreshToken |-> Undefined]

\* User.findById(id)
findById(db, id) == IF id \in Ids /\ db[id].state = "live" THEN db[id] ELSE Null

\* User.findOne({$or: [{username}, {email}]}): the documents that match.
findOneMatches(db, username, email) ==
    {i \in Ids : /\ db[i].state = "live"
                 /\ \/ (username # NoString /\ db[i].username = username)
                    \/ (email # NoString /\ db[i].email = email)}

\* A faulty selection that returns the stored document whole (C22 must fail on it).
SelectEverything(user) == user

\* The projection .select("-password -refreshToken").
SelectPublic(user) == [user EXCEPT !.password = Hash(NoString), !.refreshToken = Undefined]

(* ------------------------------ errors -------------------------------- *)
\* new ApiError(statusCode, message): sets statusCode and message; it has no
\* property named status (status = 0 stands for undefined).
ApiError(statusCode, message) ==
    [name |-> "ApiError", statusCode |-> statusCode, status |-> 0, message |-> message]
\* The errors jsonwebtoken throws carry a name and a message only.
JwtError(name, message) ==
    [name |-> name, statusCode |-> 0, status |-> 0, message |-> message]
NoError == [name |-> "none", statusCode |-> 0, status |-> 0, message |-> NoString]

\* A faulty verification that does not look at the expiry (C14 must fail on it).
jwtVerifyNoExpiry(token, secret, t) ==
    IF token.kind # "jwt" THEN [ok |-> FALSE, _id |-> NoId,
                                err |-> JwtError("JsonWebTokenError", "jwt malformed")]
    ELSE IF token.key # secret THEN [ok |-> FALSE, _id |-> NoId,
                                err |-> JwtError("JsonWebTokenError", "invalid signature")]
    ELSE [ok |-> TRUE, _id |-> token._id, err |-> NoError]

\* A faulty verification that accepts a signature made with either of the
\* server's keys (C15 must fail on it).
jwtVerifyEitherKey(token, secret, t) ==
    IF token.kind # "jwt" THEN [ok |-> FALSE, _id |-> NoId,
                                err |-> JwtError("JsonWebTokenError", "jwt malformed")]
    ELSE IF token.key \notin {ACCESS_TOKEN_SECRET, REFRESH_TOKEN_SECRET}
    THEN [ok |-> FALSE, _id |-> NoId,
          err |-> JwtError("JsonWebTokenError", "invalid signature")]
    ELSE IF t >= token.exp THEN [ok |-> FALSE, _id |-> NoId,
                                err |-> JwtError("TokenExpiredError", "jwt expired")]
    ELSE [ok |-> TRUE, _id |-> token._id, err |-> NoError]

\* jwt.verify(token, secret) at time t: the payload, or the error thrown.
jwtVerify(token, secret, t) ==
    IF token.kind # "jwt" THEN [ok |-> FALSE, _id |-> NoId,
                                err |-> JwtError("JsonWebTokenError", "jwt malformed")]
    ELSE IF token.key # secret THEN [ok |-> FALSE, _id |-> NoId,
                                err |-> JwtError("JsonWebTokenError", "invalid signature")]
    ELSE IF t >= token.exp THEN [ok |-> FALSE, _id |-> NoId,
                                err |-> JwtError("TokenExpiredError", "jwt expired")]
    ELSE [ok |-> TRUE, _id |-> token._id, err |-> NoError]


(* ------------------------------ helpers ------------------------------- *)
\* const { name } = object: the property, or undefined when the object has none.
Destructure(object, name) == IF name \in DOMAIN object THEN object[name] ELSE Undefined

(* --------------------- generateAccessAndRefreshTokens ----------------- *)
\* What the call returns or throws, and the collection after user.save().
generateAccessAndRefreshTokens(db, userId, t) ==
    LET user == findById(db, userId)
        accessToken == generateAccessToken(user, t)
        refreshToken == generateRefreshToken(user, t)
    IN  IF user.state = "null"
        THEN \* the 404 thrown in the try block is caught and rethrown as a 500
             [ok |-> FALSE,
              err |-> ApiError(500, "SOMETHING WENT WRONG WHILE GENERATING ACCESS AND REFRESH TOKENS"),
              db |-> db, value |-> [accessToken |-> Undefined, refreshToken |-> Undefined]]
        ELSE [ok |-> TRUE, err |-> NoError,
              db |-> [db EXCEPT ![userId].refreshToken = refreshToken],
              value |-> [accessToken |-> accessToken, refreshToken |-> refreshToken]]

(* ------------------------------ VerifyJWT ----------------------------- *)
\* The Authorization header: absent, or a string that holds tok with or
\* without the "Bearer " prefix.
NoHeader == [present |-> FALSE, bearer |-> FALSE, tok |-> Undefined]
BearerHeader(tok) == [present |-> TRUE, bearer |-> TRUE, tok |-> tok]

\* req.header("Authorization")?.replace("Bearer ", "")
StripBearer(header) == IF header.present THEN header.tok ELSE Undefined

\* A faulty extraction that reads the Authorization header only (C13 must fail on it).
ExtractAccessTokenNoCookie(cookie, header) == StripBearer(header)

\* A faulty extraction that prefers the Authorization header (C25 must fail on it).
ExtractAccessTokenHeaderFirst(cookie, header) == Or(StripBearer(header), cookie)

\* req.cookies?.accessToken || req.header("Authorization")?.replace("Bearer ", "")
ExtractAccessToken(cookie, header) == Or(cookie, StripBearer(header))

\* The try block of VerifyJWT: the user it binds, or the error it throws.
VerifyJWTTry(db, cookie, header, t) ==
    LET token == ExtractAccessToken(cookie, header)
        decodedtoken == jwtVerify(token, ACCESS_TOKEN_SECRET, t)
        user == findById(db, decodedtoken._id)
    IN  IF ~Truthy(token)
        THEN [ok |-> FALSE, err |-> ApiError(401, "UNAUTHORIZED"), user |-> Null]
        ELSE IF ~decodedtoken.ok
        THEN [ok |-> FALSE, err |-> decodedtoken.err, user |-> Null]
        ELSE IF user.state = "null"
        THEN [ok |-> FALSE, err |-> ApiError(404, "INVALID ACCESS TOKEN"), user |-> Null]
        ELSE [ok |-> TRUE, err |-> NoError, user |-> SelectPublic(user)]

\* The catch block: new ApiError(error?.status || 500, error?.message || ...).
VerifyJWTCatch(error) ==
    ApiError(IF error.status # 0 THEN error.status ELSE 500,
             IF error.message # NoString THEN error.message ELSE "INTERNAL SERVER ERROR")

\* A faulty gate that also demands a stored refresh token, turning away the
\* access tokens of a user who has logged out (C19 must fail on it).
VerifyJWTSessionBound(db, cookie, header, t) ==
    LET r == VerifyJWTTry(db, cookie, header, t)
    IN  IF r.ok /\ Truthy(findById(db, r.user._id).refreshToken)
        THEN [ok |-> TRUE, err |-> NoError, thrown |-> NoError, user |-> r.user]
        ELSE [ok |-> FALSE, err |-> VerifyJWTCatch(ApiError(401, "UNAUTHORIZED")),
              thrown |-> ApiError(401, "UNAUTHORIZED"), user |-> Null]

\* VerifyJWT: binds req.user and calls next(), or rejects with the rethrown error.
\* thrown is the error the try block threw, err the one that reaches next(err).
VerifyJWT(db, cookie, header, t) ==
    LET r == VerifyJWTTry(db, cookie, header, t)
    IN  IF r.ok THEN [ok |-> TRUE, err |-> NoError, thrown |-> NoError, user |-> r.user]
        ELSE [ok |-> FALSE, err |-> VerifyJWTCatch(r.err), thrown |-> r.err, user |-> Null]


(* ------------------------- handler outcomes --------------------------- *)
\* A faulty rejection that ends every session before it answers (C29 must
\* fail on it).
RejectedRevoking(err, inner, db) ==
    [status |-> err.statusCode, message |-> err.message,
     inner |-> inner,
     db |-> [i \in DOMAIN db |-> [db[i] EXCEPT !.refreshToken = Empty]],
     principal |-> NoId, minted |-> {},
     cookieAccess |-> Undefined, cookieRefresh |-> Undefined,
     bodyAccess |-> Undefined, bodyRefresh |-> Undefined]

\* What a request ends in: the response the client sees and the collection.
\*   status, message : the response; of a rejection, the statusCode and the
\*                     message of the ApiError that asyncHandler hands to next()
\*   inner           : statusCode of the error first thrown, 0 when none
\*   principal       : the user a credential pair was minted for, NoId when none
\*   cookie*, body*  : the tokens the response carries
Rejected(err, inner, db) ==
    [status |-> err.statusCode, message |-> err.message,
     inner |-> inner, db |-> db, principal |-> NoId, minted |-> {},
     cookieAccess |-> Undefined, cookieRefresh |-> Undefined,
     bodyAccess |-> Undefined, bodyRefresh |-> Undefined]

Succeeded(message, db, principal, minted, cookieAccess, cookieRefresh, bodyAccess, bodyRefresh) ==
    [status |-> 200, message |-> message, inner |-> 0, db |-> db,
     principal |-> principal, minted |-> minted,
     cookieAccess |-> cookieAccess, cookieRefresh |-> cookieRefresh,
     bodyAccess |-> bodyAccess, bodyRefresh |-> bodyRefresh]

(* ------------------------------ loginUser ----------------------------- *)
\* A faulty password check that lets every password through (C10 must fail on it).
PasswordCheckSkipped(user, password) == TRUE

\* if (!isPasswordValid) throw new ApiError(400, "INCORRECT PASSWORD")
PasswordCheckPasses(user, password) == isPasswordCorrect(user, password)

\* loginUser, with found the document User.findOne returned (NoId: none).
loginUser(db, username, email, password, found, t) ==
    LET user == findById(db, found)
        gen == generateAccessAndRefreshTokens(db, user._id, t)
        accessToken == Destructure(gen.value, "accessToken")
        refreshToken == Destructure(gen.value, "refreshToken")
    IN  IF username = NoString /\ email = NoString
        THEN Rejected(ApiError(400, "USERNAME OR EMAIL IS REQUIRED"), 400, db)
        ELSE IF user.state = "null"
        THEN Rejected(ApiError(404, "USER NOT FOUND"), 404, db)
        ELSE IF ~PasswordCheckPasses(user, password)
        THEN Rejected(ApiError(400, "INCORRECT PASSWORD"), 400, db)
        ELSE IF ~gen.ok
        THEN Rejected(gen.err, 404, db)
        ELSE Succeeded("USER LOGGED IN SUCCESSFULLY", gen.db, user._id,
                       {accessToken, refreshToken},
                       accessToken, refreshToken, accessToken, refreshToken)

(* ------------------------------ logOutUser ---------------------------- *)
\* A faulty update that leaves the stored refresh token in place (C3 must fail on it).
logOutUserUpdateNoClear(db, id) == db

\* A faulty update that clears the refresh token of every document (C30 must
\* fail on it).
logOutUserUpdateAll(db, id) ==
    [i \in DOMAIN db |-> [db[i] EXCEPT !.refreshToken = Empty]]

\* User.findByIdAndUpdate(req.user._id, {$set: {refreshToken: ""}})
logOutUserUpdate(db, id) ==
    IF id \in Ids /\ db[id].state = "live"
    THEN [db EXCEPT ![id].refreshToken = Empty]
    ELSE db

logOutUser(db, reqUser) ==
    Succeeded("USER LOGGED OUT SUCCESSFULLY", logOutUserUpdate(db, reqUser._id), NoId, {},
              Undefined, Undefined, Undefined, Undefined)

(* --------------------------- refreshAccessToken ----------------------- *)
\* req.cookies.refreshToken || req.body.refreshToken
IncomingRefreshToken(cookie, body) == Or(cookie, body)

\* A faulty comparison that accepts any stored token (C1 must fail on it).
StoredTokenMatchesNoCheck(user, incomingRefreshToken) == TRUE

\* if (user?.refreshToken !== incomingRefreshToken) throw 403
StoredTokenMatches(user, incomingRefreshToken) == user.refreshToken = incomingRefreshToken

\* catch (error) { throw new ApiError(401, "Token refresh failed. ...") }
RefreshCatch(error) == ApiError(401, "Token refresh failed. Please try logging in again.")

refreshAccessToken(db, cookie, body, t) ==
    LET incomingRefreshToken == IncomingRefreshToken(cookie, body)
        decodedToken == jwtVerify(incomingRefreshToken, REFRESH_TOKEN_SECRET, t)
        user == findById(db, decodedToken._id)
        gen == generateAccessAndRefreshTokens(db, user._id, t)
        accessToken == Destructure(gen.value, "accessToken")
        newRefreshToken == Destructure(gen.value, "newRefreshToken")
    IN  IF ~Truthy(incomingRefreshToken)
        THEN Rejected(ApiError(401, "Refresh token missing. Please log in again."), 401, db)
        ELSE IF ~decodedToken.ok
        THEN Rejected(RefreshCatch(decodedToken.err), 401, db)
        ELSE IF user.state = "null"
        THEN Rejected(RefreshCatch(ApiError(404, "User not found. Please log in again.")), 404, db)
        ELSE IF ~StoredTokenMatches(user, incomingRefreshToken)
        THEN Rejected(RefreshCatch(ApiError(403, "Refresh token mismatch. Please log in again.")), 403, db)
        ELSE IF ~gen.ok
        THEN Rejected(RefreshCatch(gen.err), 500, db)
        ELSE Succeeded("Access token successfully refreshed.", gen.db, user._id,
                       {gen.value.accessToken, gen.value.refreshToken},
                       accessToken, newRefreshToken, accessToken, newRefreshToken)

\* The operations refreshAccessToken performs, in the order it performs
\* them: every check that fails throws, and nothing after it runs.
RefreshOrder == <<"extract", "jwt.verify", "User.findById", "compare",
                  "generateAccessAndRefreshTokens">>

\* A faulty handler that loads the user before it verifies the token (C20
\* must fail on it).
refreshAccessTokenStepsLookupFirst(db, cookie, body, t) ==
    LET incomingRefreshToken == IncomingRefreshToken(cookie, body)
    IN  IF ~Truthy(incomingRefreshToken) THEN <<"extract">>
        ELSE <<"extract", "User.findById", "jwt.verify">>

refreshAccessTokenSteps(db, cookie, body, t) ==
    LET incomingRefreshToken == IncomingRefreshToken(cookie, body)
        decodedToken == jwtVerify(incomingRefreshToken, REFRESH_TOKEN_SECRET, t)
        user == findById(db, decodedToken._id)
    IN  IF ~Truthy(incomingRefreshToken) THEN SubSeq(RefreshOrder, 1, 1)
        ELSE IF ~decodedToken.ok THEN SubSeq(RefreshOrder, 1, 2)
        ELSE IF user.state = "null" THEN SubSeq(RefreshOrder, 1, 3)
        ELSE IF ~StoredTokenMatches(user, incomingRefreshToken) THEN SubSeq(RefreshOrder, 1, 4)
        ELSE RefreshOrder

(* ----------------------------- getCurrentUser ------------------------- *)
\* The user object of getCurrentUser's response: new ApiResponse(200, req.user, ...).
getCurrentUserData(reqUser) == reqUser

getCurrentUser(db, reqUser) ==
    Succeeded("USER DATA FETCHED SUCCESSFULLY", db, NoId, {},
              Undefined, Undefined, Undefined, Undefined)


(* -------------------------- changeCurrentpassword --------------------- *)
\* A faulty check of the current password that lets every password through
\* (C17 must fail on it).
CurrentPasswordMatchesNoCheck(user, currentPassword) == TRUE

\* if (!isPasswordMatch) throw new ApiError(400, "INCORRECT PASSWORD")
CurrentPasswordMatches(user, currentPassword) == isPasswordCorrect(user, currentPassword)

\* A faulty save that also clears the stored refresh token (C16 must fail on it).
changePasswordSaveRevoking(db, id, newPassword) ==
    [db EXCEPT ![id].password = Hash(newPassword), ![id].refreshToken = Empty]

\* user.password = newPassword; await user.save(): the pre-save hook hashes it.
changePasswordSave(db, id, newPassword) ==
    [db EXCEPT ![id].password = Hash(newPassword)]

\* Reading a property of null throws a TypeError, which carries no statusCode.
TypeErrorOfNull ==
    [name |-> "TypeError", statusCode |-> 0, status |-> 0,
     message |-> "Cannot read properties of null"]

changeCurrentpassword(db, reqUser, currentPassword, newPassword) ==
    LET user == findById(db, reqUser._id)
    IN  IF user.state = "null"
        THEN Rejected(TypeErrorOfNull, 0, db)
        ELSE IF ~CurrentPasswordMatches(user, currentPassword)
        THEN Rejected(ApiError(400, "INCORRECT PASSWORD"), 400, db)
        ELSE Succeeded("PASSWORD CHANGED SUCCESSFULLY",
                       changePasswordSave(db, user._id, newPassword), NoId, {},
                       Undefined, Undefined, Undefined, Undefined)

(* ------------------------------- requests ----------------------------- *)
\* The token strings a client can put where an access or refresh token goes:
\* any token the server has signed, a string that is no JWT, a forged token.
Presentable == issued \cup {Garbage, Forged}

AccessTokens == {tok \in issued : tok.key = ACCESS_TOKEN_SECRET}
RefreshTokens == {tok \in issued : tok.key = REFRESH_TOKEN_SECRET}

\* Cookie and Authorization header of a request to a protected route: one of
\* the two, neither, or both (an access token next to a string that is no JWT).
AccessCreds ==
    {[cookie |-> c, header |-> NoHeader] : c \in Presentable \cup {Undefined}}
    \cup {[cookie |-> Undefined, header |-> BearerHeader(h)] : h \in Presentable}
    \cup {[cookie |-> c, header |-> BearerHeader(Garbage)] : c \in AccessTokens}
    \cup {[cookie |-> Garbage, header |-> BearerHeader(h)] : h \in AccessTokens}

\* The same, for a client that keeps the access token it was given in the
\* cookie, or has none.
CookieCreds ==
    {[cookie |-> c, header |-> NoHeader] : c \in AccessTokens \cup {Undefined}}

\* refreshToken cookie and refreshToken body field of a refresh request.
RefreshCreds ==
    {[cookie |-> c, body |-> Undefined] : c \in Presentable}
    \cup {[cookie |-> Undefined, body |-> b] : b \in RefreshTokens \cup {Undefined, Empty}}
    \cup {[cookie |-> Empty, body |-> b] : b \in {Undefined, Garbage}}

\* No more than MaxPairs distinct credential pairs are ever in circulation.
MayMint(minted) == Cardinality(issued \cup minted) <= 2 * MaxPairs

\* The request carries an accessToken cookie or an Authorization header.
Presents(ac) == ac.cookie.kind # "undefined" \/ ac.header.present

NoRefreshCreds == [cookie |-> Undefined, body |-> Undefined]

NoRequest ==
    [op |-> "none", status |-> 0, message |-> NoString, inner |-> 0,
     presented |-> FALSE, reqUser |-> NoId, handlerRan |-> FALSE, incoming |-> Undefined,
     principal |-> NoId, cookieAccess |-> Undefined, cookieRefresh |-> Undefined,
     bodyAccess |-> Undefined, bodyRefresh |-> Undefined, prevLogin |-> Undefined]

\* The record of a request that ended in outcome out.
\*   presented  : the request carried an access credential (cookie or header)
\*   reqUser    : req.user._id as the gate bound it, NoId when it bound none
\*   handlerRan : the route's controller ran
\*   incoming   : the refresh token the controller read from the request
\*   prevLogin  : the refresh token the principal's previous login returned
Record(op, presented, reqUser, handlerRan, incoming, out, prevLogin) ==
    [op |-> op, status |-> out.status, message |-> out.message,
     inner |-> out.inner, presented |-> presented,
     reqUser |-> reqUser, handlerRan |-> handlerRan,
     incoming |-> incoming, principal |-> out.principal,
     cookieAccess |-> out.cookieAccess, cookieRefresh |-> out.cookieRefresh,
     bodyAccess |-> out.bodyAccess, bodyRefresh |-> out.bodyRefresh,
     prevLogin |-> prevLogin]

(* ------------------------------- routes ------------------------------- *)
\* router.route("/logout").post(VerifyJWT, logOutUser)
LogoutRoute(db, ac, t) ==
    LET gate == VerifyJWT(db, ac.cookie, ac.header, t)
    IN  IF gate.ok THEN logOutUser(db, gate.user)
        ELSE Rejected(gate.err, gate.thrown.statusCode, db)

\* router.route("/refresh-token").post(VerifyJWT, refreshAccessToken)
RefreshRoute(db, ac, rc, t) ==
    LET gate == VerifyJWT(db, ac.cookie, ac.header, t)
    IN  IF gate.ok THEN refreshAccessToken(db, rc.cookie, rc.body, t)
        ELSE Rejected(gate.err, gate.thrown.statusCode, db)

\* A faulty gate that ends the session of the user it loads (C21 must fail on it).
CurrentUserRouteGateWrites(db, ac, t) ==
    LET gate == VerifyJWT(db, ac.cookie, ac.header, t)
    IN  IF gate.ok THEN getCurrentUser(logOutUserUpdate(db, gate.user._id), gate.user)
        ELSE Rejected(gate.err, gate.thrown.statusCode, db)

\* router.route("/").get(VerifyJWT, getCurrentUser)
CurrentUserRoute(db, ac, t) ==
    LET gate == VerifyJWT(db, ac.cookie, ac.header, t)
    IN  IF gate.ok THEN getCurrentUser(db, gate.user)
        ELSE Rejected(gate.err, gate.thrown.statusCode, db)

\* router.route("/change-password").post(VerifyJWT, changeCurrentpassword)
ChangePasswordRoute(db, ac, currentPassword, newPassword, t) ==
    LET gate == VerifyJWT(db, ac.cookie, ac.header, t)
    IN  IF gate.ok THEN changeCurrentpassword(db, gate.user, currentPassword, newPassword)
        ELSE Rejected(gate.err, gate.thrown.statusCode, db)

(* ------------------------- requests in flight ------------------------- *)
\* A handler runs to its next await and then yields to the other requests.
\*   pc     : "idle", "generate" (the checks passed; generateAccessAndRefreshTokens
\*            is to load the user and sign), "save" (user.save() is under way),
\*            "done" (saved; the response is on its way)
\*   token  : the refresh token the request signed
\*   incoming : the refresh token a refresh request presented
\*   lost   : another request's save has overwritten this request's save
Slots == 1..MaxInFlight
Idle == [pc |-> "idle", op |-> "none", userId |-> NoId, token |-> Undefined, lost |-> FALSE,
         incoming |-> Undefined]

(* ------------------------------- actions ------------------------------ *)
Init ==
    /\ users = [i \in Ids |->
                  [_id |-> i, state |-> "live", username |-> UsernameOf(i),
                   email |-> EmailOf(i), password |-> Hash(PasswordOf(i)),
                   refreshToken |-> Undefined]]
    /\ now = 0
    /\ issued = {}
    /\ last = NoRequest
    /\ consumed = {}
    /\ loggedOut = {}
    /\ lastLogin = [i \in Ids |-> Undefined]
    /\ pending = [s \in Slots |-> Idle]

\* POST /login
Login ==
    \E username \in Usernames \cup {NoString}, email \in Emails \cup {NoString},
       password \in Passwords \cup {NoString} :
      \E found \in (IF findOneMatches(users, username, email) = {} THEN {NoId}
                    ELSE findOneMatches(users, username, email)) :
        LET out == loginUser(users, username, email, password, found, now)
        IN  /\ MayMint(out.minted)
            /\ last' = Record("login", FALSE, NoId, TRUE, Undefined, out,
                              IF found = NoId THEN Undefined ELSE lastLogin[found])
            /\ users' = out.db
            /\ issued' = issued \cup out.minted
            /\ UNCHANGED now

\* POST /logout
Logout ==
    \E ac \in CookieCreds :
      LET gate == VerifyJWT(users, ac.cookie, ac.header, now)
          out == LogoutRoute(users, ac, now)
      IN  /\ last' = Record("logout", Presents(ac), gate.user._id, gate.ok, Undefined, out, Undefined)
          /\ users' = out.db
          /\ UNCHANGED <<now, issued>>

\* POST /refresh-token
Refresh ==
    \E ac \in CookieCreds :
      LET gate == VerifyJWT(users, ac.cookie, ac.header, now)
      IN  \E rc \in (IF gate.ok THEN RefreshCreds ELSE {NoRefreshCreds}) :
            LET out == RefreshRoute(users, ac, rc, now)
                incoming == IF gate.ok THEN IncomingRefreshToken(rc.cookie, rc.body)
                            ELSE Undefined
            IN  /\ MayMint(out.minted)
                /\ last' = Record("refresh", Presents(ac), gate.user._id, gate.ok, incoming, out, Undefined)
                /\ users' = out.db
                /\ issued' = issued \cup out.minted
                /\ UNCHANGED now

\* GET /
CurrentUser ==
    \E ac \in AccessCreds :
      LET gate == VerifyJWT(users, ac.cookie, ac.header, now)
          out == CurrentUserRoute(users, ac, now)
      IN  /\ last' = Record("getCurrentUser", Presents(ac), gate.user._id, gate.ok, Undefined, out, Undefined)
          /\ UNCHANGED <<users, now, issued>>

\* POST /change-password
ChangePassword ==
    \E ac \in CookieCreds :
      LET gate == VerifyJWT(users, ac.cookie, ac.header, now)
      IN  \E currentPassword \in (IF gate.ok THEN Passwords \cup {NoString} ELSE {NoString}),
             newPassword \in (IF gate.ok THEN Passwords ELSE {NoString}) :
            LET out == ChangePasswordRoute(users, ac, currentPassword, newPassword, now)
            IN  /\ last' = Record("changePassword", Presents(ac), gate.user._id, gate.ok,
                                  Undefined, out, Undefined)
                /\ users' = out.db
                /\ UNCHANGED <<now, issued>>

\* The clock advances.
Tick ==
    /\ now < MaxTime
    /\ now' = now + 1
    /\ UNCHANGED <<users, issued, last>>

\* A user document is removed from the collection (outside these handlers).
DeleteUser ==
    \E i \in Ids :
      /\ users[i].state = "live"
      /\ users' = [users EXCEPT ![i].state = "deleted"]
      /\ UNCHANGED <<now, issued, last>>

\* The history variables are not part of the program: the program's
\* specification leaves them alone, SpecHist keeps them.
NoHistory == UNCHANGED <<consumed, loggedOut, lastLogin, pending>>

History ==
    /\ consumed' = IF last'.op = "refresh" /\ last'.status = 200
                   THEN consumed \cup {last'.incoming} ELSE consumed
    /\ loggedOut' = IF last'.op = "logout" /\ last'.status = 200
                    THEN loggedOut \cup {last'.reqUser}
                    ELSE IF last'.op \in {"login", "refresh"} /\ last'.status = 200
                    THEN loggedOut \ {last'.principal}
                    ELSE loggedOut
    /\ lastLogin' = IF last'.op = "login" /\ last'.status = 200
                    THEN [lastLogin EXCEPT ![last'.principal] = users'[last'.principal].refreshToken]
                    ELSE lastLogin
    /\ UNCHANGED pending

Next ==
    \/ Login /\ NoHistory
    \/ Logout /\ NoHistory
    \/ Refresh /\ NoHistory
    \/ CurrentUser /\ NoHistory
    \/ Tick /\ NoHistory
    \/ DeleteUser /\ NoHistory

Spec == Init /\ [][Next]_vars

\* loginUser up to its call of generateAccessAndRefreshTokens: the user is
\* found and the password is the user's.
ConcLoginStart ==
    \E s \in Slots, p \in Ids :
      /\ pending[s].pc = "idle"
      /\ findOneMatches(users, UsernameOf(p), NoString) = {p}
      /\ PasswordCheckPasses(findById(users, p), PasswordOf(p))
      /\ pending' = [pending EXCEPT ![s] = [Idle EXCEPT !.pc = "generate",
                                                        !.op = "login", !.userId = p]]
      /\ UNCHANGED <<users, now, issued, last, consumed, loggedOut, lastLogin>>

\* refreshAccessToken up to its call of generateAccessAndRefreshTokens: the
\* token verifies, its user is found and stores that very token.
ConcRefreshStart ==
    \E s \in Slots, tok \in RefreshTokens :
      LET decodedToken == jwtVerify(tok, REFRESH_TOKEN_SECRET, now)
          user == findById(users, decodedToken._id)
      IN  /\ pending[s].pc = "idle"
          /\ decodedToken.ok /\ user.state = "live"
          /\ StoredTokenMatches(user, tok)
          /\ pending' = [pending EXCEPT ![s] = [Idle EXCEPT !.pc = "generate",
                                                            !.op = "refresh",
                                                            !.userId = user._id,
                                                            !.incoming = tok]]
          /\ UNCHANGED <<users, now, issued, last, consumed, loggedOut, lastLogin>>

\* generateAccessAndRefreshTokens: User.findById resolves, the tokens are
\* signed and user.save() is called.
ConcGenerate ==
    \E s \in Slots :
      LET user == findById(users, pending[s].userId)
      IN  /\ pending[s].pc = "generate"
          /\ pending' = [pending EXCEPT ![s] =
                            IF user.state = "null" THEN Idle
                            ELSE [@ EXCEPT !.pc = "save",
                                           !.token = generateRefreshToken(user, now)]]
          /\ UNCHANGED <<users, now, issued, last, consumed, loggedOut, lastLogin>>

\* user.save() writes the refresh token; the write lands on top of whatever
\* the document holds.
ConcSave ==
    \E s \in Slots :
      /\ pending[s].pc = "save"
      /\ users' = [users EXCEPT ![pending[s].userId].refreshToken = pending[s].token]
      /\ issued' = issued \cup {pending[s].token}
      /\ pending' = [o \in Slots |->
                        IF o = s THEN [pending[s] EXCEPT !.pc = "done"]
                        ELSE IF pending[o].pc = "done" /\ pending[o].userId = pending[s].userId
                        THEN [pending[o] EXCEPT !.lost = TRUE]
                        ELSE pending[o]]
      /\ UNCHANGED <<now, last, consumed, loggedOut, lastLogin>>

\* The response has gone out; the slot serves another request.
ConcRespond ==
    \E s \in Slots :
      /\ pending[s].pc = "done"
      /\ pending' = [pending EXCEPT ![s] = Idle]
      /\ UNCHANGED <<users, now, issued, last, consumed, loggedOut, lastLogin>>

\* Logins and refreshes whose handlers interleave at their awaits.
NextConc ==
    \/ ConcLoginStart
    \/ ConcRefreshStart
    \/ ConcGenerate
    \/ ConcSave
    \/ ConcRespond
    \/ Tick /\ NoHistory

SpecConc == Init /\ [][NextConc]_vars

\* The session routes together with the password change.
NextPwd ==
    \/ Login /\ NoHistory
    \/ Logout /\ NoHistory
    \/ Refresh /\ NoHistory
    \/ ChangePassword /\ NoHistory
    \/ Tick /\ NoHistory

SpecPwd == Init /\ [][NextPwd]_vars

NextHist ==
    \/ Login /\ History
    \/ Logout /\ History
    \/ Refresh /\ History
    \/ CurrentUser /\ History
    \/ Tick /\ History
    \/ DeleteUser /\ History

SpecHist == Init /\ [][NextHist]_vars


(* ================================ claims ============================== *)
\* The step is a request to the route op: no request moves the clock or
\* removes a document.
RequestStep(op) ==
    /\ last'.op = op
    /\ now' = now
    /\ \A i \in Ids : users'[i].state = users[i].state

\* tok is a token signed with the refresh-signing key that has not expired at t.
VerifiesAsRefresh(tok, t) ==
    tok.kind = "jwt" /\ tok.key = REFRESH_TOKEN_SECRET /\ t < tok.exp

\* tok is a token signed with the access-signing key that has not expired at t.
VerifiesAsAccess(tok, t) ==
    tok.kind = "jwt" /\ tok.key = ACCESS_TOKEN_SECRET /\ t < tok.exp

ProtectedOps == {"logout", "refresh", "getCurrentUser"}

\* The response carries no credential.
NoCredentialReturned(r) ==
    /\ r.principal = NoId
    /\ r.cookieAccess = Undefined /\ r.cookieRefresh = Undefined
    /\ r.bodyAccess = Undefined /\ r.bodyRefresh = Undefined

\* C1: a refresh request issues or persists a credential pair only if the
\* presented refresh token verifies under the refresh-signing key, has not
\* expired, and equals the stored refresh token of its principal at the time
\* of the check; in every other case nothing is issued and nothing is stored.
C1_RefreshIssuesOnlyForValidCurrentToken ==
    [][RequestStep("refresh") =>
         LET inc == last'.incoming
             valid == /\ VerifiesAsRefresh(inc, now)
                      /\ users[inc._id].state = "live"
                      /\ users[inc._id].refreshToken = inc
             issues == \/ last'.status = 200
                       \/ ~NoCredentialReturned(last')
                       \/ users' # users
                       \/ issued' # issued
         IN  issues => valid]_vars

\* C1 witness: a refresh has succeeded and replaced the stored token.
C1_Witness ==
    /\ last.op = "refresh" /\ last.status = 200 /\ last.principal \in Ids
    /\ users[last.principal].refreshToken # last.incoming

\* C2: a refresh token that a successful refresh has consumed is rejected at
\* the stored-token comparison (403 thrown, nothing issued) whenever it is
\* presented again while still unexpired.
C2_ConsumedTokenRejected ==
    \A r \in consumed :
        (VerifiesAsRefresh(r, now) /\ users[r._id].state = "live") =>
            LET out == refreshAccessToken(users, r, Undefined, now)
            IN  /\ out.status # 200 /\ out.inner = 403
                /\ out.minted = {} /\ out.db = users

\* C3: a logout clears the principal's stored refresh token; while it is
\* cleared every refresh presenting a token of that principal is rejected
\* and changes nothing; and only a successful login of that principal ends
\* this.
C3_LogoutInvalidatesRefreshTokens ==
    [][\A p \in Ids :
         /\ (RequestStep("logout") /\ last'.status = 200 /\ last'.reqUser = p)
               => users'[p].refreshToken = Empty
         /\ (/\ users[p].refreshToken = Empty
             /\ RequestStep("refresh")
             /\ last'.incoming.kind = "jwt" /\ last'.incoming._id = p)
               => (/\ last'.status # 200 /\ NoCredentialReturned(last')
                   /\ users' = users /\ issued' = issued)
         /\ (users[p].refreshToken = Empty /\ users'[p].refreshToken # Empty)
               => (RequestStep("login") /\ last'.status = 200 /\ last'.principal = p)]_vars

\* C3 witness: after a logout, an unexpired refresh token of the principal
\* was presented and turned away at the comparison with the stored value.
C3_Witness ==
    /\ last.op = "refresh" /\ last.handlerRan /\ last.status # 200 /\ last.inner = 403
    /\ VerifiesAsRefresh(last.incoming, now)
    /\ users[last.incoming._id].refreshToken = Empty

\* C4: right after a principal's second successful login, which returned R2
\* where the login before returned R1, refresh accepts R2 (while unexpired)
\* and rejects R1.
C4_OnlyLatestLoginTokenValid ==
    (/\ last.op = "login" /\ last.status = 200
     /\ last.prevLogin.kind = "jwt"
     /\ users[last.principal].state = "live") =>
        LET R1 == last.prevLogin
            R2 == last.cookieRefresh
        IN  /\ VerifiesAsRefresh(R2, now) =>
                refreshAccessToken(users, R2, Undefined, now).status = 200
            /\ refreshAccessToken(users, R1, Undefined, now).status # 200

\* C5: a successful refresh returns both new credentials, in the cookies and
\* in the body, and the refresh token it returns is the one it stored.
C5_RefreshReturnsPersistedToken ==
    (last.op = "refresh" /\ last.status = 200) =>
        /\ last.cookieAccess \in AccessTokens
        /\ last.bodyAccess = last.cookieAccess
        /\ last.cookieRefresh = users[last.principal].refreshToken
        /\ last.bodyRefresh = users[last.principal].refreshToken

\* C6: a successful refresh leaves a stored refresh token different from the
\* one it consumed.
C6_RefreshRotatesToken ==
    (last.op = "refresh" /\ last.status = 200) =>
        users[last.principal].refreshToken # last.incoming

\* C7: a client with no access token, or an expired one, that presents the
\* principal's stored, unexpired refresh token to POST /refresh-token gets a
\* new pair.
C7_RefreshWithoutValidAccessToken ==
    \A p \in Ids :
        LET R == users[p].refreshToken
        IN  (users[p].state = "live" /\ VerifiesAsRefresh(R, now)) =>
              \A ac \in CookieCreds :
                 (\/ ac.cookie = Undefined
                  \/ (ac.cookie._id = p /\ ~VerifiesAsAccess(ac.cookie, now))) =>
                    LET out == RefreshRoute(users, ac, [cookie |-> R, body |-> Undefined], now)
                    IN  out.status = 200 /\ out.principal = p

\* C8: a request to a protected route with neither an accessToken cookie nor
\* an Authorization header is answered 401, binds no principal and does not
\* reach the controller.
C8_MissingCredentialIs401 ==
    (last.op \in ProtectedOps /\ ~last.presented) =>
        /\ last.status = 401
        /\ last.reqUser = NoId /\ ~last.handlerRan

\* C9: every rejection by the access gate is answered 401, or 404 when the
\* token is valid and its principal is gone; none is answered 500.
C9_GateRejectionsAre401Or404 ==
    (last.op \in ProtectedOps /\ ~last.handlerRan) =>
        IF last.inner = 404 THEN last.status = 404 ELSE last.status = 401

\* C10: a login that finds the user but carries another password than the
\* user's is answered 400, returns no token, sets no cookie and leaves the
\* collection as it was.
C10_WrongPasswordLoginRejected ==
    /\ \A username \in Usernames \cup {NoString}, email \in Emails \cup {NoString},
          password \in Passwords :
         \A found \in findOneMatches(users, username, email) :
            password # PasswordOf(found) =>
               LET out == loginUser(users, username, email, password, found, now)
               IN  /\ out.status = 400
                   /\ out.minted = {} /\ NoCredentialReturned(out)
                   /\ out.db = users
    /\ (last.op = "login" /\ last.message = "INCORRECT PASSWORD") =>
          (last.status = 400 /\ NoCredentialReturned(last))

\* C10 witness: a login with a wrong password was rejected while a principal
\* had a refresh token stored.
C10_Witness ==
    /\ last.op = "login" /\ last.status = 400 /\ last.message = "INCORRECT PASSWORD"
    /\ \E p \in Ids : users[p].refreshToken.kind = "jwt"

\* C11: a login request that names neither a username nor an email, or that
\* carries no password, is answered 400 and issues no token.
C11_LoginRequiresIdentityAndPassword ==
    \A username \in Usernames \cup {NoString}, email \in Emails \cup {NoString},
       password \in Passwords \cup {NoString} :
      \A found \in (IF findOneMatches(users, username, email) = {} THEN {NoId}
                    ELSE findOneMatches(users, username, email)) :
        ((username = NoString /\ email = NoString) \/ password = NoString) =>
           LET out == loginUser(users, username, email, password, found, now)
           IN  /\ out.status = 400
               /\ out.minted = {} /\ NoCredentialReturned(out)

\* C12: a refresh that the controller rejects is answered with the status of
\* the check that failed: 401 for an absent token, 401 for a token that fails
\* verification, 404 for an unknown principal, 403 for a token that differs
\* from the stored one; and the 404 and 403 answers differ in message from
\* the answer to a token that fails verification.
C12_RefreshFailuresAreDistinct ==
    (last.op = "refresh" /\ last.handlerRan /\ last.inner \in {401, 403, 404}) =>
        /\ last.status = last.inner
        /\ last.inner \in {403, 404} =>
              last.message # RefreshCatch(JwtError("JsonWebTokenError", "jwt malformed")).message

\* C13: the access token that the token issuer mints for an existing user,
\* presented to the gate at once (in the cookie or in the Authorization
\* header), passes and binds that user; and so does the access token every
\* successful login or refresh hands out, right after the request.
C13_MintedAccessTokenBindsPrincipal ==
    [][/\ \A p \in Ids :
            users[p].state = "live" =>
               LET gen == generateAccessAndRefreshTokens(users, p, now)
                   tok == gen.value.accessToken
                   viaCookie == VerifyJWT(gen.db, tok, NoHeader, now)
                   viaHeader == VerifyJWT(gen.db, Undefined, BearerHeader(tok), now)
               IN  /\ gen.ok
                   /\ viaCookie.ok /\ viaCookie.user._id = p
                   /\ viaHeader.ok /\ viaHeader.user._id = p
       /\ ((RequestStep("login") \/ RequestStep("refresh")) /\ last'.status = 200) =>
               LET gate == VerifyJWT(users', last'.cookieAccess, NoHeader, now')
               IN  gate.ok /\ gate.user._id = last'.principal]_vars

\* C13 witness: a login has just handed out an access token, and the gate
\* binds the login's principal when given it.
C13_Witness ==
    /\ last.op = "login" /\ last.status = 200 /\ last.principal \in Ids
    /\ VerifyJWT(users, last.cookieAccess, NoHeader, now).ok
    /\ VerifyJWT(users, last.cookieAccess, NoHeader, now).user._id = last.principal

\* C14: a token the server signed whose expiry has passed is turned away by
\* the gate (in the cookie or in the header) and by refresh (in the cookie or
\* in the body), which then issues and stores nothing; the stored refresh
\* token of a user is no exception.
C14_ExpiredCredentialFails ==
    \A tok \in issued :
        now >= tok.exp =>
            /\ ~VerifyJWT(users, tok, NoHeader, now).ok
            /\ ~VerifyJWT(users, Undefined, BearerHeader(tok), now).ok
            /\ \A rc \in {[cookie |-> tok, body |-> Undefined],
                          [cookie |-> Undefined, body |-> tok]} :
                  LET out == refreshAccessToken(users, rc.cookie, rc.body, now)
                  IN  /\ out.status # 200 /\ NoCredentialReturned(out)
                      /\ out.minted = {} /\ out.db = users

\* C14 witness: a refresh presented the stored refresh token of a user after
\* its expiry, with a valid signature, and was rejected at verification.
C14_Witness ==
    /\ last.op = "refresh" /\ last.handlerRan /\ last.status # 200 /\ last.inner = 401
    /\ last.incoming.kind = "jwt" /\ last.incoming.key = REFRESH_TOKEN_SECRET
    /\ now >= last.incoming.exp
    /\ users[last.incoming._id].state = "live"
    /\ users[last.incoming._id].refreshToken = last.incoming

\* C15: refresh never accepts an access token the server signed as a refresh
\* token (it issues and stores nothing), and the gate never accepts a refresh
\* token the server signed as an access token, in the cookie or in the header.
C15_KeySeparation ==
    /\ \A tok \in AccessTokens :
          \A rc \in {[cookie |-> tok, body |-> Undefined],
                     [cookie |-> Undefined, body |-> tok]} :
             LET out == refreshAccessToken(users, rc.cookie, rc.body, now)
             IN  /\ out.status # 200 /\ NoCredentialReturned(out)
                 /\ out.minted = {} /\ out.db = users
    /\ \A tok \in RefreshTokens :
          /\ ~VerifyJWT(users, tok, NoHeader, now).ok
          /\ ~VerifyJWT(users, Undefined, BearerHeader(tok), now).ok
    /\ (last.op = "refresh" /\ last.incoming.key = ACCESS_TOKEN_SECRET) => last.status # 200

\* C15 witness: an unexpired access token of a live user was presented to
\* refresh as the refresh token and was rejected at verification.
C15_Witness ==
    /\ last.op = "refresh" /\ last.handlerRan /\ last.status # 200 /\ last.inner = 401
    /\ last.incoming \in AccessTokens
    /\ VerifiesAsAccess(last.incoming, now)
    /\ users[last.incoming._id].state = "live"

\* C16: a successful password change leaves every stored refresh token as it
\* was, and every refresh token that refresh accepted before the change is
\* accepted after it.
C16_PasswordChangeKeepsRefreshToken ==
    [][(RequestStep("changePassword") /\ last'.status = 200) =>
          /\ \A p \in Ids : users'[p].refreshToken = users[p].refreshToken
          /\ \A tok \in RefreshTokens :
                refreshAccessToken(users, tok, Undefined, now).status = 200
                   => refreshAccessToken(users', tok, Undefined, now').status = 200]_vars

\* C16 witness: a user has changed the password to another one while holding
\* a stored, unexpired refresh token, which refresh still accepts.
C16_Witness ==
    /\ last.op = "changePassword" /\ last.status = 200 /\ last.reqUser \in Ids
    /\ users[last.reqUser].password # Hash(PasswordOf(last.reqUser))
    /\ VerifiesAsRefresh(users[last.reqUser].refreshToken, now)
    /\ refreshAccessToken(users, users[last.reqUser].refreshToken, Undefined, now).status = 200

\* C17: changeCurrentpassword with a current password that does not verify
\* against the stored one is answered 400 and leaves the collection as it
\* was, so that the old password still logs in and the new one does not; with
\* one that verifies it stores the new password.
C17_PasswordChangeNeedsCurrentPassword ==
    /\ \A p \in Ids, currentPassword \in Passwords \cup {NoString},
          newPassword \in Passwords, oldPassword \in Passwords :
         (users[p].state = "live" /\ users[p].password = Hash(oldPassword)) =>
            LET out == changeCurrentpassword(users, SelectPublic(users[p]),
                                             currentPassword, newPassword)
            IN  IF currentPassword = oldPassword
                THEN /\ out.status = 200
                     /\ out.db[p].password = Hash(newPassword)
                ELSE /\ out.status = 400 /\ out.db = users
                     /\ loginUser(out.db, UsernameOf(p), NoString, oldPassword, p, now).status = 200
                     /\ newPassword # oldPassword =>
                           loginUser(out.db, UsernameOf(p), NoString, newPassword, p, now).status = 400
    /\ (last.op = "changePassword" /\ last.message = "INCORRECT PASSWORD") => last.status = 400

\* C17 witness: a password change with a wrong current password was rejected
\* for a user who had changed the password before; the stored password is
\* still the one of the earlier change.
C17_Witness ==
    /\ last.op = "changePassword" /\ last.handlerRan /\ last.status = 400
    /\ last.reqUser \in Ids
    /\ users[last.reqUser].password # Hash(PasswordOf(last.reqUser))

\* C18: however concurrent logins and refreshes of one user interleave, the
\* stored refresh token is the one saved last; refresh accepts at most one
\* refresh token value of a user at a time; and the token of a request whose
\* save was overwritten by another request's is turned away at the comparison
\* with the stored value when it is used while unexpired.
C18_LastWriteWinsLosersRejected ==
    /\ \A s \in Slots :
          (pending[s].pc = "done" /\ ~pending[s].lost) =>
              users[pending[s].userId].refreshToken = pending[s].token
    /\ \A t1 \in RefreshTokens, t2 \in RefreshTokens :
          (/\ t1._id = t2._id
           /\ refreshAccessToken(users, t1, Undefined, now).status = 200
           /\ refreshAccessToken(users, t2, Undefined, now).status = 200) => t1 = t2
    /\ \A s \in Slots :
          (/\ pending[s].pc = "done" /\ pending[s].lost
           /\ VerifiesAsRefresh(pending[s].token, now)) =>
              LET out == refreshAccessToken(users, pending[s].token, Undefined, now)
              IN  out.status # 200 /\ out.inner = 403

\* C19: the gate lets a token through exactly when it is signed with the
\* access-signing key, unexpired, and its user exists; whatever refresh token
\* any user stores, or none, the gate's verdict on it is the same.
C19_GateIgnoresStoredRefreshToken ==
    \A tok \in Presentable \cup {Undefined} :
        LET gate == VerifyJWT(users, tok, NoHeader, now)
        IN  /\ gate.ok <=> (/\ VerifiesAsAccess(tok, now)
                            /\ tok._id \in Ids /\ users[tok._id].state = "live")
            /\ \A p \in Ids, r \in RefreshTokens \cup {Empty, Undefined} :
                  VerifyJWT([users EXCEPT ![p].refreshToken = r], tok, NoHeader, now) = gate

\* C19 witness: after a logout cleared the user's stored refresh token, the
\* user's access token from before the logout has passed the gate.
C19_Witness ==
    /\ last.op = "getCurrentUser" /\ last.status = 200 /\ last.reqUser \in Ids
    /\ users[last.reqUser].refreshToken = Empty

\* C20: refresh runs its checks in the order presence, verification, user
\* lookup, comparison with the stored token, and stops at the first that
\* fails: a token that fails verification causes no read of the collection,
\* and tokens are signed and stored only after all four checks have passed.
C20_RefreshChecksInOrder ==
    \A rc \in RefreshCreds :
        LET steps == refreshAccessTokenSteps(users, rc.cookie, rc.body, now)
            out == refreshAccessToken(users, rc.cookie, rc.body, now)
            tok == IncomingRefreshToken(rc.cookie, rc.body)
            n == Len(steps)
        IN  /\ n \in 1..Len(RefreshOrder) /\ steps = SubSeq(RefreshOrder, 1, n)
            /\ ~jwtVerify(tok, REFRESH_TOKEN_SECRET, now).ok =>
                  \A i \in 1..n : steps[i] \notin {"User.findById", "compare",
                                                  "generateAccessAndRefreshTokens"}
            /\ (out.minted # {} \/ out.db # users \/ out.status = 200) =>
                  /\ n = Len(RefreshOrder)
                  /\ Truthy(tok) /\ VerifiesAsRefresh(tok, now)
                  /\ users[tok._id].state = "live" /\ users[tok._id].refreshToken = tok
            /\ n < Len(RefreshOrder) =>
                  /\ out.status # 200 /\ out.minted = {} /\ out.db = users
                  /\ out.inner = (CASE n = 1 -> 401 [] n = 2 -> 401
                                    [] n = 3 -> 404 [] OTHER -> 403)

\* C20 witness: a refresh presented a token that fails verification and was
\* rejected there, having run nothing but the extraction and the verification.
C20_Witness ==
    /\ last.op = "refresh" /\ last.handlerRan /\ last.status # 200 /\ last.inner = 401
    /\ Truthy(last.incoming)
    /\ refreshAccessTokenSteps(users, last.incoming, Undefined, now) = SubSeq(RefreshOrder, 1, 2)

\* The returned user object carries the password hash or the stored refresh
\* token as a field.
CarriesSecretField(doc) ==
    doc.password # Hash(NoString) \/ doc.refreshToken # Undefined

\* C21: access verification has no effect on the stored users: a request the
\* gate turns away leaves every stored password and refresh token as it was
\* on every protected route, a request it lets through to getCurrentUser
\* leaves them as they were too, and on success it binds the user it loaded.
C21_GateHasNoStoreEffects ==
    \A ac \in AccessCreds :
      LET gate == VerifyJWT(users, ac.cookie, ac.header, now)
      IN  /\ CurrentUserRoute(users, ac, now).db = users
          /\ ~gate.ok =>
               /\ gate.user = Null
               /\ LogoutRoute(users, ac, now).db = users
               /\ \A rc \in RefreshCreds : RefreshRoute(users, ac, rc, now).db = users
               /\ \A cur \in Passwords, new \in Passwords :
                    ChangePasswordRoute(users, ac, cur, new, now).db = users
          /\ gate.ok =>
               /\ gate.user._id \in Ids
               /\ gate.user = SelectPublic(users[gate.user._id])

\* The gate turned away a request that presented a credential while a user
\* had a session stored.
C21_Witness ==
    /\ last.op \in ProtectedOps /\ last.presented /\ ~last.handlerRan
    /\ \E i \in Ids : users[i].refreshToken.kind = "jwt"

\* C22: the user the gate binds to the request carries neither the password
\* hash nor the stored refresh token, and so neither does the user object
\* getCurrentUser returns.
C22_BoundUserCarriesNoSecret ==
    \A ac \in AccessCreds :
      LET gate == VerifyJWT(users, ac.cookie, ac.header, now)
      IN  gate.ok =>
            /\ ~CarriesSecretField(gate.user)
            /\ ~CarriesSecretField(getCurrentUserData(gate.user))
            /\ gate.user.password # users[gate.user._id].password

\* getCurrentUser answered for a user whose document holds a refresh token.
C22_Witness ==
    /\ last.op = "getCurrentUser" /\ last.status = 200 /\ last.handlerRan
    /\ last.reqUser \in Ids
    /\ Truthy(users[last.reqUser].refreshToken)

(* ------------------------------ asyncHandler -------------------------- *)
\* How a wrapped requestHandler can end: a plain function returns, throws, or
\* returns a promise that rejects; an async function resolves ("returns") or
\* rejects (a throw inside an async function is a rejection).
HandlerRuns ==
    {[kind |-> "sync", end |-> e] : e \in {"returns", "throws", "rejects"}}
    \cup {[kind |-> "async", end |-> e] : e \in {"returns", "rejects"}}

\* A faulty wrapper without the .catch (C23 must fail on it).
asyncHandlerNoCatch(run) ==
    [nextErr |-> 0, thrown |-> run.end = "throws", unhandled |-> run.end = "rejects"]

\* Promise.resolve(requestHandler(req, res, next)).catch((err) => next(err)):
\*   nextErr   : how often the wrapper calls next(err)
\*   thrown    : the call requestHandler(...) threw before a promise existed,
\*               so the error leaves the wrapper as an exception
\*   unhandled : a rejection nobody catches
asyncHandler(run) ==
    [nextErr |-> IF run.end = "rejects" THEN 1 ELSE 0,
     thrown |-> run.end = "throws",
     unhandled |-> FALSE]

\* The router's layer around each middleware of a route:
\* try { fn(req, res, next) } catch (err) { next(err) }.
LayerHandleRequest(run) ==
    LET r == asyncHandler(run)
    IN  [nextErr |-> r.nextErr + (IF r.thrown THEN 1 ELSE 0), unhandled |-> r.unhandled]

\* The wrapped handlers that ran for the request in r, in route order: VerifyJWT
\* on a protected route, then the controller when the gate let the request
\* through. Both are async functions.
RunsOf(r) ==
    LET gated == r.op \in ProtectedOps \cup {"changePassword"}
        gate == [kind |-> "async", end |-> IF r.handlerRan THEN "returns" ELSE "rejects"]
        controller == [kind |-> "async", end |-> IF r.status = 200 THEN "returns" ELSE "rejects"]
    IN  (IF gated THEN <<gate>> ELSE <<>>) \o (IF r.handlerRan THEN <<controller>> ELSE <<>>)

RECURSIVE SumNextErr(_)
SumNextErr(runs) ==
    IF runs = <<>> THEN 0
    ELSE LayerHandleRequest(Head(runs)).nextErr + SumNextErr(Tail(runs))

C25_CookiePresentDecidesAlone ==
    \A c \in Presentable \cup {Empty}, h \in Presentable :
      VerifyJWT(users, c, BearerHeader(h), now).ok = VerifyJWT(users, c, NoHeader, now).ok

\* C25: when the accessToken cookie holds a non-empty value, the gate's verdict
\* is the one it gives for the cookie alone; when the cookie is absent or
\* empty, the verdict is the one for the token of the Authorization header.
C25_NonEmptyCookieDecidesAlone ==
    /\ \A c \in Presentable, h \in Presentable \cup {Empty} :
         VerifyJWT(users, c, BearerHeader(h), now) = VerifyJWT(users, c, NoHeader, now)
    /\ \A c \in {Undefined, Empty}, h \in Presentable :
         VerifyJWT(users, c, BearerHeader(h), now) = VerifyJWT(users, h, NoHeader, now)

\* A request with a cookie that is no JWT was turned away while an access
\* token that the gate accepts was there to be sent in the header.
C25_Witness ==
    /\ last.op = "getCurrentUser" /\ last.presented /\ ~last.handlerRan
    /\ \E a \in AccessTokens :
         /\ VerifyJWT(users, Undefined, BearerHeader(a), now).ok
         /\ ~VerifyJWT(users, Garbage, BearerHeader(a), now).ok
         /\ VerifyJWT(users, a, BearerHeader(Garbage), now).ok

\* C26: a refresh token value is consumed by at most one successful refresh:
\* of the refresh requests in flight that presented the same token, at most
\* one has signed and saved a new refresh token in its place.
C26_TokenConsumedByOneRefresh ==
    \A s1 \in Slots, s2 \in Slots :
      (/\ s1 # s2
       /\ pending[s1].op = "refresh" /\ pending[s2].op = "refresh"
       /\ pending[s1].incoming = pending[s2].incoming)
      => ~(/\ pending[s1].pc = "done" /\ pending[s1].token # pending[s1].incoming
           /\ pending[s2].pc = "done" /\ pending[s2].token # pending[s2].incoming)

(* ------------------- user objects in response bodies ------------------ *)
\* The projection .select("-password").
SelectNoPassword(user) == [user EXCEPT !.password = Hash(NoString)]

\* registerUser: createdUser, the created document read back with
\* .select("-password -refreshToken").
registerUserData(created) == SelectPublic(created)

\* loginUser: loggedInUser, read after the tokens were saved.
loginUserData(db, id) == SelectPublic(findById(db, id))

\* UpdateAccountDetails: findByIdAndUpdate(req.user._id, {$set: {fullName,
\* email}}, {new: true}).select("-password"); the updated document is the
\* response's user object.
UpdateAccountDetails(db, reqUser, fullName, email) ==
    IF fullName = NoString \/ email = NoString
    THEN [status |-> 400, db |-> db, data |-> Null]
    ELSE LET updated == [db EXCEPT ![reqUser._id].email = email]
         IN  [status |-> 200, db |-> updated,
              data |-> SelectNoPassword(findById(updated, reqUser._id))]

\* updateUserAvatar and updateUserCoverImage: the updated document with
\* .select("-password -refreshToken").
updateUserAvatarData(db, reqUser) == SelectPublic(findById(db, reqUser._id))
updateUserCoverImageData(db, reqUser) == SelectPublic(findById(db, reqUser._id))

FullNames == {"Alice A", NoString}

\* C27: the user object in the response of register, login, getCurrentUser
\* and of the three profile updates carries neither the password hash nor
\* the stored refresh token.
C27_NoSecretFieldInResponses ==
    /\ \A i \in Ids :
         users[i].state = "live" =>
           /\ ~CarriesSecretField(registerUserData(users[i]))
           /\ ~CarriesSecretField(loginUserData(users, i))
    /\ \A ac \in AccessCreds :
         LET gate == VerifyJWT(users, ac.cookie, ac.header, now)
         IN  gate.ok =>
               /\ ~CarriesSecretField(getCurrentUserData(gate.user))
               /\ ~CarriesSecretField(updateUserAvatarData(users, gate.user))
               /\ ~CarriesSecretField(updateUserCoverImageData(users, gate.user))
               /\ \A fullName \in FullNames, email \in Emails \cup {NoString} :
                    LET out == UpdateAccountDetails(users, gate.user, fullName, email)
                    IN  out.status = 200 => ~CarriesSecretField(out.data)

\* C28: a successful refresh rotates the session of the user the gate bound
\* to the request: the user whose stored refresh token is overwritten is
\* req.user.
C28_RefreshRotatesTheGateUser ==
    (last.op = "refresh" /\ last.status = 200) =>
        last.principal = last.reqUser

\* The stored refresh token of every user.
StoredRefreshTokens(db) == [i \in DOMAIN db |-> db[i].refreshToken]

\* C29: a login or refresh request that ends in a rejection, whatever the
\* reason, leaves every user's stored refresh token as it was before the
\* request.
C29_RejectionLeavesStoredTokens ==
    /\ \A username \in Usernames \cup {NoString}, email \in Emails \cup {NoString},
          password \in Passwords \cup {NoString} :
         \A found \in (IF findOneMatches(users, username, email) = {} THEN {NoId}
                       ELSE findOneMatches(users, username, email)) :
           LET out == loginUser(users, username, email, password, found, now)
           IN  out.status # 200 => StoredRefreshTokens(out.db) = StoredRefreshTokens(users)
    /\ \A ac \in AccessCreds, rc \in RefreshCreds :
         LET out == RefreshRoute(users, ac, rc, now)
         IN  out.status # 200 => StoredRefreshTokens(out.db) = StoredRefreshTokens(users)
    /\ \A rc \in RefreshCreds :
         LET out == refreshAccessToken(users, rc.cookie, rc.body, now)
         IN  out.status # 200 => StoredRefreshTokens(out.db) = StoredRefreshTokens(users)

\* A refresh with a token that is not the stored one was rejected while a
\* user had a session stored.
C29_Witness ==
    /\ last.op = "refresh" /\ last.handlerRan /\ last.status # 200 /\ last.inner = 403
    /\ \E i \in Ids : users[i].refreshToken.kind = "jwt"

\* No document but p's has another password or refresh token in after than
\* in before.
OthersUntouched(before, after, p) ==
    \A q \in Ids \ {p} :
      /\ after[q].password = before[q].password
      /\ after[q].refreshToken = before[q].refreshToken

\* C30: login, logout, refresh and password change performed for a user never
\* change the stored password or the stored refresh token of any other user:
\* login acts for the user it looked up, logout and password change for
\* req.user, refresh for the user its refresh token names.
C30_OtherUsersUntouched ==
    /\ \A username \in Usernames \cup {NoString}, email \in Emails \cup {NoString},
          password \in Passwords \cup {NoString} :
         \A found \in (IF findOneMatches(users, username, email) = {} THEN {NoId}
                       ELSE findOneMatches(users, username, email)) :
           OthersUntouched(users, loginUser(users, username, email, password, found, now).db,
                           found)
    /\ \A ac \in AccessCreds :
         LET gate == VerifyJWT(users, ac.cookie, ac.header, now)
         IN  /\ OthersUntouched(users, LogoutRoute(users, ac, now).db, gate.user._id)
             /\ \A cur \in Passwords \cup {NoString}, new \in Passwords :
                  OthersUntouched(users, ChangePasswordRoute(users, ac, cur, new, now).db,
                                  gate.user._id)
             /\ \A rc \in RefreshCreds :
                  OthersUntouched(users, RefreshRoute(users, ac, rc, now).db,
                                  IncomingRefreshToken(rc.cookie, rc.body)._id)

\* A user changed the password while another user had a session stored.
C30_Witness ==
    /\ last.op = "changePassword" /\ last.status = 200 /\ last.reqUser \in Ids
    /\ \E q \in Ids \ {last.reqUser} :
         /\ users[q].refreshToken.kind = "jwt"
         /\ users[q].password = Hash(PasswordOf(q))

====
